---- MODULE Spec2Model ----
(***************************************************************************)
(* Order and coupon reconciliation of the Crystal store bot.               *)
(*                                                                         *)
(* The state is the three JSON stores (coupon ledger, pending coupons per  *)
(* channel, orders), the handlers that are suspended on an await while     *)
(* holding a copy of an order, and what the handlers hand to the outside   *)
(* (paid notifications, invoices, webhook responses).  JavaScript runs one *)
(* handler at a time up to its next await, so every action below is the    *)
(* code between two awaits.                                                *)
(*                                                                         *)
(* Money is kept in cents.  A coupon code is a sequence of one-character   *)
(* strings so that trimming, case folding and the code pattern are         *)
(* computed and not assumed.                                               *)
(***************************************************************************)
EXTENDS Integers, Sequences, FiniteSets, TLC

VARIABLES
    coupons,        \* coupons.json: the ledger, an array of coupons
    pendingCoupons, \* data/pending_coupons.json: channel -> coupon snapshot
    orders,         \* the order store: order id -> order
    idsIssued,      \* how many order ids uuid() has handed out
    chooseAwait,    \* choose_prod handlers suspended on the "coupon applied" send
    payAwait,       \* pay_crypto / pay_stripe handlers suspended on the provider
    forceCount,     \* globalThis["_force_<channel>"]
    notifyCalls,    \* order id -> number of notifyPaid(order) calls
    invoices,       \* order id -> number of createInvoicePDF calls
    env,            \* process.env: which secrets are configured
    lastResp,       \* the last webhook response sent to a provider
    transitions,    \* history: order id -> number of pending -> paid transitions
    ledgerIncs,     \* history: order id -> number of ledger increments made for it
    staleDrops,     \* history: ids of the orders built while a stale coupon was pending
    payFailed,      \* history: ids of the orders for which a provider call has thrown
    closeEffects    \* the channels whose deletion is scheduled, the orders logged

vars == <<coupons, pendingCoupons, orders, idsIssued, chooseAwait, payAwait,
          forceCount, notifyCalls, invoices, env, lastResp, transitions, ledgerIncs,
          staleDrops, payFailed, closeEffects>>

----------------------------------------------------------------------------
(* Bounds of the model *)

MaxOrders == 2      \* order ids uuid() can hand out
MaxNotify == 2      \* notifyPaid calls per order
MaxInvoices == 2    \* createInvoicePDF calls per order
MaxForce == 2       \* +dn commands counted per channel for an unpaid order

OrderIds == 1..MaxOrders
Channels == {"c1", "c2"}
Null == "null"

\* products.json: the catalog, with prices in cents
Products == {[id |-> "p1", name |-> "Gold", price |-> 1000]}

----------------------------------------------------------------------------
(* Strings as sequences of characters *)

LowerLetters ==
    <<"a", "b", "c", "d", "e", "f", "g", "h", "i", "j", "k", "l", "m",
      "n", "o", "p", "q", "r", "s", "t", "u", "v", "w", "x", "y", "z">>
UpperLetters ==
    <<"A", "B", "C", "D", "E", "F", "G", "H", "I", "J", "K", "L", "M",
      "N", "O", "P", "Q", "R", "S", "T", "U", "V", "W", "X", "Y", "Z">>
Digits == {"0", "1", "2", "3", "4", "5", "6", "7", "8", "9"}

\* the upper-case letter of each lower-case one, and the reverse
UpperTable ==
    [ch \in {LowerLetters[k] : k \in 1..Len(LowerLetters)} |->
        UpperLetters[CHOOSE k \in 1..Len(LowerLetters) : LowerLetters[k] = ch]]
LowerTable ==
    [ch \in {UpperLetters[k] : k \in 1..Len(UpperLetters)} |->
        LowerLetters[CHOOSE k \in 1..Len(UpperLetters) : UpperLetters[k] = ch]]

UpperOf(ch) == IF ch \in DOMAIN UpperTable THEN UpperTable[ch] ELSE ch

LowerOf(ch) == IF ch \in DOMAIN LowerTable THEN LowerTable[ch] ELSE ch

toUpperCase(s) == [k \in 1..Len(s) |-> UpperOf(s[k])]
toLowerCase(s) == [k \in 1..Len(s) |-> LowerOf(s[k])]

RECURSIVE trimStart(_)
trimStart(s) == IF s # <<>> /\ Head(s) = " " THEN trimStart(Tail(s)) ELSE s

RECURSIVE trimEnd(_)
trimEnd(s) ==
    IF s # <<>> /\ s[Len(s)] = " " THEN trimEnd(SubSeq(s, 1, Len(s) - 1)) ELSE s

trim(s) == trimEnd(trimStart(s))

\* the characters of [A-Z0-9_-]
CodeChars == {UpperLetters[k] : k \in 1..Len(UpperLetters)} \cup Digits \cup {"_", "-"}
MinCodeLen == 2
MaxCodeLen == 32

\* a pattern that lets a code of one character through
CodePatternFromOne(norm) ==
    /\ Len(norm) >= 1
    /\ Len(norm) <= MaxCodeLen
    /\ \A k \in 1..Len(norm) : norm[k] \in CodeChars

\* /^[A-Z0-9_-]{2,32}$/
CodePattern(norm) ==
    /\ Len(norm) >= MinCodeLen
    /\ Len(norm) <= MaxCodeLen
    /\ \A k \in 1..Len(norm) : norm[k] \in CodeChars

----------------------------------------------------------------------------
(* Coupon ledger (utils/coupons.js) *)

\* what findCoupon returns for "no coupon": null
NullCoupon ==
    [code |-> <<>>, type |-> Null, value |-> 0, uses |-> 0, maxUses |-> 0,
     active |-> FALSE]

\* Array.prototype.findIndex, given the indices whose elements satisfy the test:
\* the first of them, 0 for -1
FirstIndex(hits) ==
    IF hits = {} THEN 0 ELSE CHOOSE k \in hits : \A j \in hits : k <= j

\* a usage test that still lets a coupon at its cap through
ExhaustedPastCap(c) == c.maxUses > 0 /\ c.uses > c.maxUses

\* the usage test of findCoupon: maxUses > 0 && uses >= maxUses
Exhausted(c) == c.maxUses > 0 /\ c.uses >= c.maxUses

findCoupon(arr, code) ==
    IF code = <<>> THEN NullCoupon
    ELSE LET SameCode(x) == toLowerCase(x.code) = toLowerCase(code)
             k == FirstIndex({j \in 1..Len(arr) : SameCode(arr[j])})
         IN  IF k = 0 THEN NullCoupon
             ELSE IF arr[k].active = FALSE THEN NullCoupon
             ELSE IF Exhausted(arr[k]) THEN NullCoupon
             ELSE arr[k]

\* the error addCoupon throws, "" when it accepts
addCouponError(arr, code, type, value, maxUses) ==
    LET norm == toUpperCase(trim(code))
        Taken(x) == toUpperCase(x.code) = norm
    IN  IF code = <<>> THEN "Missing code"
        ELSE IF ~CodePattern(norm) THEN "Code must be 2-32 chars (A-Z, 0-9, _ or -)"
        ELSE IF type # "fixed" /\ type # "percent" THEN "Type must be fixed or percent"
        ELSE IF value <= 0 THEN "Value must be > 0"
        ELSE IF type = "percent" /\ value > 100 THEN "Percent cannot exceed 100"
        ELSE IF maxUses < 0 THEN "maxUses must be >= 0 (0 = unlimited)"
        ELSE IF FirstIndex({j \in 1..Len(arr) : Taken(arr[j])}) # 0 THEN "Coupon already exists"
        ELSE ""

\* an addCoupon that stores the code as it was typed
addCouponAsTyped(arr, code, type, value, maxUses) ==
    Append(arr, [code |-> code, type |-> type, value |-> value,
                 uses |-> 0, maxUses |-> maxUses, active |-> TRUE])

\* the ledger addCoupon writes when it accepts
addCoupon(arr, code, type, value, maxUses) ==
    Append(arr, [code |-> toUpperCase(trim(code)), type |-> type, value |-> value,
                 uses |-> 0, maxUses |-> maxUses, active |-> TRUE])

\* a deleteCoupon that compares the code as it was typed
deleteCouponAsTyped(arr, code) ==
    LET Other(x) == x.code # code
    IN  SelectSeq(arr, Other)

\* the ledger deleteCoupon writes; it returns Len(result) # Len(arr)
deleteCoupon(arr, code) ==
    LET norm == toUpperCase(trim(code))
        Other(x) == toUpperCase(x.code) # norm
    IN  SelectSeq(arr, Other)    \* Array.prototype.filter

\* a cap test that lets one use too many through
AtCapOffByOne(c) == c.maxUses > 0 /\ c.uses > c.maxUses

\* the cap test of incrementCouponUse: maxUses > 0 && uses >= maxUses
AtCap(c) == c.maxUses > 0 /\ c.uses >= c.maxUses

\* an increment that does not look at active
incrementIndexIgnoringActive(arr, code) ==
    LET norm == toUpperCase(trim(code))
        SameCode(x) == toUpperCase(x.code) = norm
        k == FirstIndex({j \in 1..Len(arr) : SameCode(arr[j])})
    IN  IF k = 0 THEN 0
        ELSE IF AtCap(arr[k]) THEN 0
        ELSE k

\* the index incrementCouponUse increments, 0 when it returns false
incrementIndex(arr, code) ==
    LET norm == toUpperCase(trim(code))
        SameCode(x) == toUpperCase(x.code) = norm
        k == FirstIndex({j \in 1..Len(arr) : SameCode(arr[j])})
    IN  IF k = 0 THEN 0
        ELSE IF arr[k].active = FALSE THEN 0
        ELSE IF AtCap(arr[k]) THEN 0
        ELSE k

\* the ledger after incrementCouponUse(code)
incrementCouponUse(arr, code) ==
    LET k == incrementIndex(arr, code)
    IN  IF k = 0 THEN arr ELSE [arr EXCEPT ![k].uses = arr[k].uses + 1]

\* a rounding that cuts the digits after the second off
toFixed2Truncating(hundredths, up) == hundredths \div 100

\* Number(x.toFixed(2)) of an amount given in hundredths of a cent, as cents.
\* toFixed rounds the binary value of x: a value that is half a cent in decimal
\* lies just above or just below the half in binary (10.05 * 0.5 gives 5.03,
\* 2.01 * 0.5 gives 1.00), and up tells which
toFixed2(hundredths, up) ==
    IF hundredths % 100 = 50
    THEN hundredths \div 100 + (IF up THEN 1 ELSE 0)
    ELSE (hundredths + 50) \div 100

\* how the two roundings of one call fall when the value is half a cent
TieOutcomes == [total : BOOLEAN, discount : BOOLEAN]

Min(a, b) == IF a < b THEN a ELSE b
Max(a, b) == IF a > b THEN a ELSE b

\* amounts in cents; a fixed coupon's value in cents, a percent coupon's in percent
applyCouponToAmount(amount, coupon, ups) ==
    IF coupon.code = <<>> THEN [total |-> amount, discount |-> 0, label |-> FALSE]
    ELSE IF coupon.type = "fixed" THEN
        LET discount == Max(0, Min(amount, coupon.value))
        IN  [total |-> toFixed2((amount - discount) * 100, ups.total),
             discount |-> toFixed2(discount * 100, ups.discount), label |-> TRUE]
    ELSE IF coupon.type = "percent" THEN
        LET pct == Max(0, Min(100, coupon.value))
            discount == amount * pct    \* in hundredths of a cent
        IN  [total |-> toFixed2(amount * 100 - discount, ups.total),
             discount |-> toFixed2(discount, ups.discount), label |-> TRUE]
    ELSE [total |-> amount, discount |-> 0, label |-> FALSE]

----------------------------------------------------------------------------
(* Pending coupons (utils/pendingCoupons.js): an object keyed by channel id *)

\* what getPendingCoupon returns for "no entry": null
NoPending == [code |-> <<>>, type |-> Null, value |-> 0, maxUses |-> 0]

\* a setPendingCoupon that writes a fresh object with the one entry
setPendingCouponAlone(obj, channelId, coupon) == [c \in {channelId} |-> coupon]

setPendingCoupon(obj, channelId, coupon) ==
    [c \in DOMAIN obj \cup {channelId} |-> IF c = channelId THEN coupon ELSE obj[c]]

getPendingCoupon(obj, channelId) ==
    IF channelId \in DOMAIN obj THEN obj[channelId] ELSE NoPending

\* a clearPendingCoupon that leaves the entry in place
clearPendingCouponKeeping(obj, channelId) == obj

clearPendingCoupon(obj, channelId) ==
    IF channelId \in DOMAIN obj
    THEN [c \in DOMAIN obj \ {channelId} |-> obj[c]]
    ELSE obj

----------------------------------------------------------------------------
(* Order store (utils/store.js, not among the sources: modelled from the   *)
(* specification's sections 3, 4.4 and 6)                                   *)

\* pricing.coupon of an order without coupon: null
NoSnapshot == [code |-> <<>>, type |-> Null, value |-> 0, maxUses |-> 0, uses |-> 0]

upsertOrder(store, order) ==
    [i \in DOMAIN store \cup {order.id} |-> IF i = order.id THEN order ELSE store[i]]

\* getOrderById(id) is store[id] when OrderKnown, null otherwise
OrderKnown(store, id) == id \in DOMAIN store

\* the store after markPaid(orderId, payment); markPaid returns store'[orderId],
\* or null when the order is unknown
markPaid(store, orderId, payment) ==
    IF ~OrderKnown(store, orderId) THEN store
    ELSE IF store[orderId].status = "paid" THEN store
    ELSE [store EXCEPT ![orderId].status = "paid",
                       ![orderId].payment.method = payment.method,
                       ![orderId].payment.provider = payment.provider,
                       ![orderId].payment.transactionId = payment.transactionId,
                       ![orderId].payment.paidAmount = payment.paidAmount]

\* the ids of the orders of a channel
OrdersOfChannel(store, channelId) ==
    {i \in DOMAIN store : store[i].channelId = channelId}

\* getOrderByChannelId: the id of the most recent order of the channel, 0 for null
getOrderByChannelId(store, channelId) ==
    IF OrdersOfChannel(store, channelId) = {} THEN 0
    ELSE CHOOSE i \in OrdersOfChannel(store, channelId) :
            \A j \in OrdersOfChannel(store, channelId) : j <= i

----------------------------------------------------------------------------
(* Order lifecycle: the button, modal and slash-command handlers *)

NoPayment ==
    [method |-> Null, provider |-> Null, url |-> Null, transactionId |-> Null,
     paidAmount |-> <<>>]

\* i.user.id of the member who presses the buttons of a ticket: its buyer
Buyer == [c \in Channels |-> <<"buyer", c>>]

\* the order choose_prod builds before it looks at the pending coupon
NewOrder(orderId, channelId, prod) ==
    [id |-> orderId, status |-> "pending", channelId |-> channelId,
     userId |-> Buyer[channelId],
     product |-> [id |-> prod.id, name |-> prod.name, price |-> prod.price],
     payment |-> NoPayment,
     pricing |-> [original |-> prod.price, discount |-> 0, total |-> prod.price,
                  coupon |-> NoSnapshot, couponUsedMarked |-> FALSE]]

\* the pricing choose_prod writes when the pending coupon is still usable
CouponPricing(prod, coupon, ups) ==
    LET r == applyCouponToAmount(prod.price, coupon, ups)
    IN  [original |-> prod.price, discount |-> r.discount, total |-> r.total,
         coupon |-> [code |-> coupon.code, type |-> coupon.type,
                     value |-> coupon.value, maxUses |-> coupon.maxUses,
                     uses |-> coupon.uses],
         couponUsedMarked |-> FALSE]

\* coupons.json after a call of addCoupon, whether it returns or throws: every
\* throw comes before writeAll
ledgerAfterAdd(arr, code, type, value, maxUses) ==
    IF addCouponError(arr, code, type, value, maxUses) = ""
    THEN addCoupon(arr, code, type, value, maxUses)
    ELSE arr

\* /coupon add
SlashCouponAdd(code, type, value, maxUses) ==
    /\ coupons' = ledgerAfterAdd(coupons, code, type, value, maxUses)
    /\ UNCHANGED <<pendingCoupons, orders, idsIssued, chooseAwait, payAwait,
                   forceCount, notifyCalls, invoices, env, lastResp, transitions,
                   ledgerIncs, staleDrops, payFailed, closeEffects>>

\* /coupon delete
SlashCouponDelete(code) ==
    /\ coupons' = deleteCoupon(coupons, code)
    /\ UNCHANGED <<pendingCoupons, orders, idsIssued, chooseAwait, payAwait,
                   forceCount, notifyCalls, invoices, env, lastResp, transitions,
                   ledgerIncs, staleDrops, payFailed, closeEffects>>

\* the coupon_modal submit handler
CouponModalSubmit(channelId, text) ==
    LET coupon == findCoupon(coupons, trim(text))
    IN  /\ pendingCoupons' =
              IF coupon.code = <<>> THEN pendingCoupons
              ELSE setPendingCoupon(pendingCoupons, channelId,
                      [code |-> coupon.code, type |-> coupon.type,
                       value |-> coupon.value, maxUses |-> coupon.maxUses])
        /\ UNCHANGED <<coupons, orders, idsIssued, chooseAwait, payAwait, forceCount,
                       notifyCalls, invoices, env, lastResp, transitions, ledgerIncs,
                       staleDrops, payFailed, closeEffects>>

\* a choose_prod that leaves a pending coupon it could not resolve in place
ChooseProdKeepingStale(channelId, prod, ups) ==
    LET orderId == idsIssued + 1    \* uuid()
        order == NewOrder(orderId, channelId, prod)
        pending == getPendingCoupon(pendingCoupons, channelId)
        coupon == findCoupon(coupons, pending.code)
    IN  /\ idsIssued < MaxOrders
        /\ idsIssued' = orderId
        /\ IF pending.code # <<>> /\ coupon.code # <<>>
           THEN \* suspended on the "coupon applied" send, the order not yet stored
                /\ pendingCoupons' = clearPendingCoupon(pendingCoupons, channelId)
                /\ chooseAwait' = chooseAwait \cup
                       {[order EXCEPT !.pricing = CouponPricing(prod, coupon, ups)]}
                /\ UNCHANGED orders
           ELSE /\ UNCHANGED pendingCoupons
                /\ orders' = upsertOrder(orders, order)
                /\ UNCHANGED chooseAwait
        /\ staleDrops' = IF pending.code # <<>> /\ coupon.code = <<>>
                         THEN staleDrops \cup {orderId}
                         ELSE staleDrops
        /\ UNCHANGED <<coupons, payAwait, forceCount, notifyCalls, invoices, env,
                       lastResp, transitions, ledgerIncs, payFailed, closeEffects>>

\* a choose_prod that has not cleared the pending coupon when it suspends
ChooseProdClearingLate(channelId, prod, ups) ==
    LET orderId == idsIssued + 1    \* uuid()
        order == NewOrder(orderId, channelId, prod)
        pending == getPendingCoupon(pendingCoupons, channelId)
        coupon == findCoupon(coupons, pending.code)
    IN  /\ idsIssued < MaxOrders
        /\ idsIssued' = orderId
        /\ IF pending.code # <<>> /\ coupon.code # <<>>
           THEN \* suspended on the "coupon applied" send, the order not yet stored
                /\ UNCHANGED pendingCoupons
                /\ chooseAwait' = chooseAwait \cup
                       {[order EXCEPT !.pricing = CouponPricing(prod, coupon, ups)]}
                /\ UNCHANGED orders
           ELSE /\ pendingCoupons' =
                       IF pending.code # <<>>
                       THEN clearPendingCoupon(pendingCoupons, channelId)
                       ELSE pendingCoupons
                /\ orders' = upsertOrder(orders, order)
                /\ UNCHANGED chooseAwait
        /\ staleDrops' = IF pending.code # <<>> /\ coupon.code = <<>>
                         THEN staleDrops \cup {orderId}
                         ELSE staleDrops
        /\ UNCHANGED <<coupons, payAwait, forceCount, notifyCalls, invoices, env,
                       lastResp, transitions, ledgerIncs, payFailed, closeEffects>>

\* a choose_prod that counts a use of the coupon when it builds the order
ChooseProdCountingUse(channelId, prod, ups) ==
    LET orderId == idsIssued + 1    \* uuid()
        order == NewOrder(orderId, channelId, prod)
        pending == getPendingCoupon(pendingCoupons, channelId)
        coupon == findCoupon(coupons, pending.code)
    IN  /\ idsIssued < MaxOrders
        /\ idsIssued' = orderId
        /\ IF pending.code # <<>> /\ coupon.code # <<>>
           THEN \* suspended on the "coupon applied" send, the order not yet stored
                /\ pendingCoupons' = clearPendingCoupon(pendingCoupons, channelId)
                /\ chooseAwait' = chooseAwait \cup
                       {[order EXCEPT !.pricing = CouponPricing(prod, coupon, ups)]}
                /\ coupons' = incrementCouponUse(coupons, coupon.code)
                /\ UNCHANGED orders
           ELSE /\ pendingCoupons' =
                       IF pending.code # <<>>
                       THEN clearPendingCoupon(pendingCoupons, channelId)
                       ELSE pendingCoupons
                /\ orders' = upsertOrder(orders, order)
                /\ UNCHANGED <<chooseAwait, coupons>>
        /\ staleDrops' = IF pending.code # <<>> /\ coupon.code = <<>>
                         THEN staleDrops \cup {orderId}
                         ELSE staleDrops
        /\ UNCHANGED <<payAwait, forceCount, notifyCalls, invoices, env,
                       lastResp, transitions, ledgerIncs, payFailed, closeEffects>>

\* the choose_prod button handler, up to its first await
ChooseProd(channelId, prod, ups) ==
    LET orderId == idsIssued + 1    \* uuid()
        order == NewOrder(orderId, channelId, prod)
        pending == getPendingCoupon(pendingCoupons, channelId)
        coupon == findCoupon(coupons, pending.code)
    IN  /\ idsIssued < MaxOrders
        /\ idsIssued' = orderId
        /\ IF pending.code # <<>> /\ coupon.code # <<>>
           THEN \* suspended on the "coupon applied" send, the order not yet stored
                /\ pendingCoupons' = clearPendingCoupon(pendingCoupons, channelId)
                /\ chooseAwait' = chooseAwait \cup
                       {[order EXCEPT !.pricing = CouponPricing(prod, coupon, ups)]}
                /\ UNCHANGED orders
           ELSE /\ pendingCoupons' =
                       IF pending.code # <<>>
                       THEN clearPendingCoupon(pendingCoupons, channelId)
                       ELSE pendingCoupons
                /\ orders' = upsertOrder(orders, order)
                /\ UNCHANGED chooseAwait
        /\ staleDrops' = IF pending.code # <<>> /\ coupon.code = <<>>
                         THEN staleDrops \cup {orderId}
                         ELSE staleDrops
        /\ UNCHANGED <<coupons, payAwait, forceCount, notifyCalls, invoices, env,
                       lastResp, transitions, ledgerIncs, payFailed, closeEffects>>

\* choose_prod resumes after the "coupon applied" send; a failed send throws
\* into the handler's catch block and the order is never stored
ChooseProdResume(order, sent) ==
    /\ order \in chooseAwait
    /\ chooseAwait' = chooseAwait \ {order}
    /\ orders' = IF sent THEN upsertOrder(orders, order) ELSE orders
    /\ UNCHANGED <<coupons, pendingCoupons, idsIssued, payAwait, forceCount,
                   notifyCalls, invoices, env, lastResp, transitions, ledgerIncs,
                   staleDrops, payFailed, closeEffects>>

\* what the provider call of a pay handler returns: {url, transaction id}
ProviderLink(method) ==
    IF method = "crypto"
    THEN [provider |-> "cryptomus", url |-> "cryptomus-url", transactionId |-> "inv-uuid"]
    ELSE [provider |-> "stripe", url |-> "stripe-url", transactionId |-> "cs-id"]

\* the pay_crypto / pay_stripe button handler, up to the provider call it awaits
PayStart(orderId, method) ==
    /\ OrderKnown(orders, orderId)
    /\ orders[orderId].status # "paid"
    /\ ~\E h \in payAwait : h.order.id = orderId /\ h.method = method
    /\ payAwait' = payAwait \cup {[method |-> method, order |-> orders[orderId]]}
    /\ UNCHANGED <<coupons, pendingCoupons, orders, idsIssued, chooseAwait, forceCount,
                   notifyCalls, invoices, env, lastResp, transitions, ledgerIncs,
                   staleDrops, payFailed, closeEffects>>

\* a write-back that also prices the order anew, without its coupon
WithPaymentLinkRepriced(order, method) ==
    [order EXCEPT !.payment.method = method,
                  !.payment.provider = ProviderLink(method).provider,
                  !.payment.url = ProviderLink(method).url,
                  !.payment.transactionId = ProviderLink(method).transactionId,
                  !.pricing.discount = 0,
                  !.pricing.total = order.product.price]

\* a write-back that also takes the issued link for a payment
WithPaymentLinkMarkingPaid(order, method) ==
    [order EXCEPT !.status = "paid",
                  !.payment.method = method,
                  !.payment.provider = ProviderLink(method).provider,
                  !.payment.url = ProviderLink(method).url,
                  !.payment.transactionId = ProviderLink(method).transactionId]

\* the order a pay handler writes back: its own copy with the link fields set
WithPaymentLink(order, method) ==
    [order EXCEPT !.payment.method = method,
                  !.payment.provider = ProviderLink(method).provider,
                  !.payment.url = ProviderLink(method).url,
                  !.payment.transactionId = ProviderLink(method).transactionId]

\* a pay handler that writes its order back whether or not the provider call threw
PayResumeWritingAnyway(h, ok) ==
    /\ h \in payAwait
    /\ payAwait' = payAwait \ {h}
    /\ orders' = upsertOrder(orders, WithPaymentLink(h.order, h.method))
    /\ payFailed' = IF ok THEN payFailed ELSE payFailed \cup {h.order.id}
    /\ UNCHANGED <<coupons, pendingCoupons, idsIssued, chooseAwait, forceCount,
                   notifyCalls, invoices, env, lastResp, transitions, ledgerIncs,
                   staleDrops, closeEffects>>

\* the pay handler resumes: the provider call returned a link, or threw
PayResume(h, ok) ==
    /\ h \in payAwait
    /\ payAwait' = payAwait \ {h}
    /\ orders' = IF ok THEN upsertOrder(orders, WithPaymentLink(h.order, h.method))
                 ELSE orders
    /\ payFailed' = IF ok THEN payFailed ELSE payFailed \cup {h.order.id}
    /\ UNCHANGED <<coupons, pendingCoupons, idsIssued, chooseAwait, forceCount,
                   notifyCalls, invoices, env, lastResp, transitions, ledgerIncs,
                   staleDrops, closeEffects>>

----------------------------------------------------------------------------
(* Webhooks *)

\* an order id no order has: a payload naming a foreign order
ForeignId == MaxOrders + 1
\* payload.order_id absent
MissingId == 0

Paid == <<"p", "a", "i", "d">>
PaidOver == <<"p", "a", "i", "d", "_", "o", "v", "e", "r">>
PaidPartial == <<"p", "a", "i", "d", "_", "p", "a", "r", "t", "i", "a", "l">>
\* a status set that takes a cancelled invoice for a payment
paidStatusesWithCancel == {Paid, PaidOver, PaidPartial, <<"c", "a", "n", "c", "e", "l">>}
paidStatuses == {Paid, PaidOver, PaidPartial}

\* a trust check that takes any sign that is present
isCryptomusWebhookTrustedAnySign(sign) ==
    IF ~env.apiKey THEN TRUE ELSE sign # ""

\* sign is "" when the payload has none, "valid" when it equals the md5 of the
\* payload and the api key, "forged" otherwise
isCryptomusWebhookTrusted(sign) ==
    IF ~env.apiKey THEN TRUE
    ELSE IF sign = "" THEN FALSE
    ELSE sign = "valid"

\* the same test without the coupon
CouponUsePendingNoCoupon(order) == ~order.pricing.couponUsedMarked

\* the same test without the couponUsedMarked flag
CouponUsePendingNoFlag(order) == order.pricing.coupon.code # <<>>

\* order?.pricing?.coupon?.code && !order?.pricing?.couponUsedMarked
CouponUsePending(order) ==
    order.pricing.coupon.code # <<>> /\ ~order.pricing.couponUsedMarked

\* a flag that records whether the increment succeeded
MarkCouponUsedIfIncremented(order, incremented) ==
    [order EXCEPT !.pricing.couponUsedMarked = incremented]

\* order.pricing.couponUsedMarked = true, whatever incrementCouponUse returned
MarkCouponUsed(order, incremented) ==
    [order EXCEPT !.pricing.couponUsedMarked = TRUE]

\* markPaid and the block under "if (order)", the same in both handlers
ConfirmPayment(orderId, payment) ==
    LET marked == markPaid(orders, orderId, payment)
        order == marked[orderId]
        k == incrementIndex(coupons, order.pricing.coupon.code)
    IN  IF ~OrderKnown(orders, orderId)
        THEN UNCHANGED <<orders, coupons, notifyCalls, transitions, ledgerIncs>>
        ELSE /\ notifyCalls[orderId] < MaxNotify
             /\ IF CouponUsePending(order)
                THEN /\ coupons' = incrementCouponUse(coupons, order.pricing.coupon.code)
                     /\ orders' = upsertOrder(marked, MarkCouponUsed(order, k # 0))
                     /\ ledgerIncs' =
                            [ledgerIncs EXCEPT ![orderId] = @ + (IF k # 0 THEN 1 ELSE 0)]
                ELSE /\ orders' = marked
                     /\ UNCHANGED <<coupons, ledgerIncs>>
             /\ notifyCalls' = [notifyCalls EXCEPT ![orderId] = @ + 1]
             /\ transitions' =
                    [transitions EXCEPT
                        ![orderId] = @ + (IF orders[orderId].status = "paid" THEN 0 ELSE 1)]

Response(provider, code, body) == [provider |-> provider, code |-> code, body |-> body]

\* POST /webhook/cryptomus; amount 0 stands for a payload without amount
CryptomusWebhook(sign, orderId, status, txid, amount) ==
    /\ IF ~isCryptomusWebhookTrusted(sign)
       THEN /\ lastResp' = Response("cryptomus", 401, "untrusted")
            /\ UNCHANGED <<orders, coupons, notifyCalls, transitions, ledgerIncs>>
       ELSE IF orderId = MissingId
       THEN /\ lastResp' = Response("cryptomus", 200, "no order")
            /\ UNCHANGED <<orders, coupons, notifyCalls, transitions, ledgerIncs>>
       ELSE IF toLowerCase(status) \notin paidStatuses
       THEN /\ lastResp' = Response("cryptomus", 200, "not paid")
            /\ UNCHANGED <<orders, coupons, notifyCalls, transitions, ledgerIncs>>
       ELSE /\ ConfirmPayment(orderId,
                   [method |-> "crypto", provider |-> "cryptomus",
                    transactionId |-> txid,
                    paidAmount |-> IF amount = 0 THEN <<>> ELSE <<"", amount>>])
            /\ lastResp' = Response("cryptomus", 200, "ok")
    /\ UNCHANGED <<pendingCoupons, idsIssued, chooseAwait, payAwait, forceCount,
                   invoices, env, staleDrops, payFailed, closeEffects>>

\* POST /webhook/stripe; signed tells whether constructEvent accepts the signature
StripeWebhook(signed, type, orderId, txid, amountTotal) ==
    /\ IF env.whSecret /\ ~signed
       THEN \* constructEvent throws into the catch block
            /\ lastResp' = Response("stripe", 200, "ok")
            /\ UNCHANGED <<orders, coupons, notifyCalls, transitions, ledgerIncs>>
       ELSE IF type = "checkout.session.completed" /\ orderId # MissingId
       THEN /\ ConfirmPayment(orderId,
                   [method |-> "stripe", provider |-> "stripe",
                    transactionId |-> txid,
                    paidAmount |-> IF amountTotal = 0 THEN <<>>
                                   ELSE <<"$", amountTotal>>])
            /\ lastResp' = Response("stripe", 200, "ok")
       ELSE /\ lastResp' = Response("stripe", 200, "ok")
            /\ UNCHANGED <<orders, coupons, notifyCalls, transitions, ledgerIncs>>
    /\ UNCHANGED <<pendingCoupons, idsIssued, chooseAwait, payAwait, forceCount,
                   invoices, env, staleDrops, payFailed, closeEffects>>

\* an exception inside a webhook handler's try block (the store cannot be read):
\* the catch block logs it and answers
WebhookThrows(provider) ==
    /\ lastResp' = Response(provider, 200, "ok")
    /\ UNCHANGED <<coupons, pendingCoupons, orders, idsIssued, chooseAwait, payAwait,
                   forceCount, notifyCalls, invoices, env, transitions, ledgerIncs,
                   staleDrops, payFailed, closeEffects>>

----------------------------------------------------------------------------
(* +dn in a ticket channel, from the owner or a member who manages channels *)

\* the number of +dn commands after which an unpaid ticket is force-closed
ForceThreshold == 2

\* a +dn that closes at once, whatever the order's status
DnWithoutWarning(channelId, sent) ==
    LET orderId == getOrderByChannelId(orders, channelId)
        unpaid == orderId # 0 /\ orders[orderId].status # "paid"
        count == IF unpaid THEN forceCount[channelId] + 1 ELSE forceCount[channelId]
    IN  /\ unpaid => forceCount[channelId] < MaxForce
        /\ forceCount' = [forceCount EXCEPT ![channelId] = count]
        /\ IF ~sent
           THEN UNCHANGED <<invoices, closeEffects>>
           ELSE /\ orderId # 0 => invoices[orderId] < MaxInvoices
                /\ invoices' = IF orderId # 0
                               THEN [invoices EXCEPT ![orderId] = @ + 1]
                               ELSE invoices
                /\ closeEffects' =
                       [deleting |-> closeEffects.deleting \cup {channelId},
                        logged |-> closeEffects.logged \cup ({orderId} \ {0})]
        /\ UNCHANGED <<coupons, pendingCoupons, orders, idsIssued, chooseAwait,
                       payAwait, notifyCalls, env, lastResp, transitions, ledgerIncs,
                       staleDrops, payFailed>>

\* +dn. sent: whether the "will close" send succeeded; when it throws the
\* handler ends. With an order it renders the invoice and sends the order log;
\* in the end it schedules the deletion of the channel
Dn(channelId, sent) ==
    LET orderId == getOrderByChannelId(orders, channelId)
        unpaid == orderId # 0 /\ orders[orderId].status # "paid"
        count == IF unpaid THEN forceCount[channelId] + 1 ELSE forceCount[channelId]
    IN  /\ unpaid => forceCount[channelId] < MaxForce
        /\ forceCount' = [forceCount EXCEPT ![channelId] = count]
        /\ IF (unpaid /\ count < ForceThreshold) \/ ~sent
           THEN UNCHANGED <<invoices, closeEffects>>     \* the warning only
           ELSE /\ orderId # 0 => invoices[orderId] < MaxInvoices
                /\ invoices' = IF orderId # 0
                               THEN [invoices EXCEPT ![orderId] = @ + 1]
                               ELSE invoices
                /\ closeEffects' =
                       [deleting |-> closeEffects.deleting \cup {channelId},
                        logged |-> closeEffects.logged \cup ({orderId} \ {0})]
        /\ UNCHANGED <<coupons, pendingCoupons, orders, idsIssued, chooseAwait,
                       payAwait, notifyCalls, env, lastResp, transitions, ledgerIncs,
                       staleDrops, payFailed>>

\* +close. sent: whether the "will close" send succeeded
Close(channelId, sent) ==
    /\ closeEffects' =
           IF sent THEN [closeEffects EXCEPT !.deleting = @ \cup {channelId}]
           ELSE closeEffects
    /\ UNCHANGED <<coupons, pendingCoupons, orders, idsIssued, chooseAwait, payAwait,
                   forceCount, notifyCalls, invoices, env, lastResp, transitions,
                   ledgerIncs, staleDrops, payFailed>>

----------------------------------------------------------------------------
(* The inputs the handlers are given *)

CodeTexts == {<<"S", "A">>, <<"s", "a">>, <<" ", "S", "a">>, <<"A">>}
CouponOffers ==
    {[type |-> "fixed", value |-> 50, maxUses |-> 1],
     [type |-> "percent", value |-> 50, maxUses |-> 0]}
Signs == {"", "valid", "forged"}
Statuses == {Paid, <<"P", "A", "I", "D">>, PaidOver, PaidPartial, <<"c", "a", "n", "c", "e", "l">>}
CryptomusTxIds == {"tx1"}
CryptomusAmounts == {1000}
StripeTypes == {"checkout.session.completed", "payment_intent.created"}
StripeTxIds == {"pi1"}
StripeTotals == {1000}

\* the state after start-up with empty stores, for the given configurations
InitWith(envs) ==
    /\ coupons = <<>>
    /\ pendingCoupons = [c \in {} |-> NoPending]
    /\ orders = [i \in {} |-> NewOrder(i, "c1", CHOOSE p \in Products : TRUE)]
    /\ idsIssued = 0
    /\ chooseAwait = {}
    /\ payAwait = {}
    /\ forceCount = [c \in Channels |-> 0]
    /\ notifyCalls = [i \in OrderIds |-> 0]
    /\ invoices = [i \in OrderIds |-> 0]
    /\ env \in envs
    /\ lastResp = Response("none", 0, "")
    /\ transitions = [i \in OrderIds |-> 0]
    /\ ledgerIncs = [i \in OrderIds |-> 0]
    /\ staleDrops = {}
    /\ payFailed = {}
    /\ closeEffects = [deleting |-> {}, logged |-> {}]

\* every configuration of the two webhook secrets
Envs == [apiKey : BOOLEAN, whSecret : BOOLEAN]
\* both secrets configured
Production == {[apiKey |-> TRUE, whSecret |-> TRUE]}

Init == InitWith(Envs)

\* the admin's coupon commands, with codes typed as in texts
AdminStep(texts, offers) ==
    \/ \E code \in texts, offer \in offers :
          SlashCouponAdd(code, offer.type, offer.value, offer.maxUses)
    \/ \E code \in texts : SlashCouponDelete(code)

\* the buyer's coupon modal, in one of the channels chs
ModalStep(chs, texts) == \E c \in chs, text \in texts : CouponModalSubmit(c, text)

\* selection of a product of catalog in one of the channels chs, while fewer than
\* limit orders exist
ChooseFrom(chs, limit, catalog) ==
    /\ idsIssued < limit
    /\ \E c \in chs, prod \in catalog, ups \in TieOutcomes : ChooseProd(c, prod, ups)

\* product selection in one of the channels chs, while fewer than limit orders exist
ChooseStep(chs, limit) == ChooseFrom(chs, limit, Products)

\* a suspended product selection resumes
ResumeStep == \E order \in chooseAwait, sent \in BOOLEAN : ChooseProdResume(order, sent)

\* payment-link issuance
PayStep ==
    \/ \E i \in OrderIds, method \in {"crypto", "stripe"} : PayStart(i, method)
    \/ \E h \in payAwait, ok \in BOOLEAN : PayResume(h, ok)

\* the order ids webhook payloads name: the issued ones, none, a foreign one
WebhookOrderIds == (1..idsIssued) \cup {MissingId, ForeignId}

\* webhook deliveries of any kind
WebhookStep ==
    \/ \E sign \in Signs, i \in WebhookOrderIds, status \in Statuses,
          txid \in CryptomusTxIds, amount \in CryptomusAmounts :
            CryptomusWebhook(sign, i, status, txid, amount)
    \/ \E signed \in BOOLEAN, type \in StripeTypes, i \in WebhookOrderIds,
          txid \in StripeTxIds, total \in StripeTotals :
            StripeWebhook(signed, type, i, txid, total)
    \/ \E provider \in {"cryptomus", "stripe"} : WebhookThrows(provider)

\* deliveries of any kind that pass the authenticity check of their handler
AuthenticStep ==
    \/ \E i \in WebhookOrderIds, status \in Statuses,
          txid \in CryptomusTxIds, amount \in CryptomusAmounts :
            CryptomusWebhook("valid", i, status, txid, amount)
    \/ \E type \in StripeTypes, i \in WebhookOrderIds,
          txid \in StripeTxIds, total \in StripeTotals :
            StripeWebhook(TRUE, type, i, txid, total)

\* authentic deliveries that report a payment of an issued order
ConfirmStep ==
    \/ \E i \in 1..idsIssued, status \in {Paid, PaidOver},
          txid \in CryptomusTxIds, amount \in CryptomusAmounts :
            CryptomusWebhook("valid", i, status, txid, amount)
    \/ \E i \in 1..idsIssued, txid \in StripeTxIds, total \in StripeTotals :
            StripeWebhook(TRUE, "checkout.session.completed", i, txid, total)

\* +dn or +close in one of the channels chs
CloseStep(chs) ==
    \/ \E c \in chs, sent \in BOOLEAN : Dn(c, sent)
    \/ \E c \in chs, sent \in BOOLEAN : Close(c, sent)

\* every handler, in every channel
Next ==
    \/ AdminStep(CodeTexts, CouponOffers)
    \/ ModalStep(Channels, CodeTexts)
    \/ ChooseStep(Channels, MaxOrders)
    \/ ResumeStep
    \/ PayStep
    \/ WebhookStep
    \/ CloseStep(Channels)

Spec == Init /\ [][Next]_vars

\* The races on the orders of one ticket: every handler but +dn, in production
\* configuration, with at most RaceOrders orders
RaceOrders == 1
Ticket == {"c1"}
NextRace ==
    \/ AdminStep(CodeTexts, CouponOffers)
    \/ ModalStep(Ticket, CodeTexts)
    \/ ChooseStep(Ticket, RaceOrders)
    \/ ResumeStep
    \/ PayStep
    \/ WebhookStep
SpecRace == InitWith(Production) /\ [][NextRace]_vars

\* Orders of one ticket that share a capped coupon: coupon commands, product
\* selection and authentic confirmations, in production configuration
CappedOffer == {[type |-> "fixed", value |-> 50, maxUses |-> 1]}
NextShare ==
    \/ AdminStep({<<"s", "a">>}, CappedOffer)
    \/ ModalStep(Ticket, {<<"S", "A">>})
    \/ ChooseStep(Ticket, MaxOrders)
    \/ ResumeStep
    \/ ConfirmStep
SpecShare == InitWith(Production) /\ [][NextShare]_vars

\* Deliveries of every kind against the orders of one ticket, in every
\* configuration: coupon commands, product selection and webhooks
NextWebhook ==
    \/ AdminStep({<<"s", "a">>}, CappedOffer)
    \/ ModalStep(Ticket, {<<"S", "A">>})
    \/ ChooseStep(Ticket, RaceOrders)
    \/ ResumeStep
    \/ WebhookStep
SpecWebhook == InitWith(Envs) /\ [][NextWebhook]_vars

\* The same deliveries with both secrets configured, so that both handlers check
\* authenticity
SpecGuarded == InitWith(Production) /\ [][NextWebhook]_vars

\* Authentic deliveries of every kind against the orders of one ticket, with
\* both webhook secrets configured or neither
BothOrNeither == {e \in Envs : e.apiKey = e.whSecret}
NextAuthentic ==
    \/ AdminStep({<<"s", "a">>}, CappedOffer)
    \/ ModalStep(Ticket, {<<"S", "A">>})
    \/ ChooseStep(Ticket, RaceOrders)
    \/ ResumeStep
    \/ AuthenticStep
SpecAuthentic == InitWith(BothOrNeither) /\ [][NextAuthentic]_vars

\* Pricing: one coupon at a time with a discount of either kind, applied to the
\* products of a catalog whose prices make the roundings fall on, above and
\* below half a cent
PricedCatalog ==
    {[id |-> "p1", name |-> "Gold", price |-> 1000],
     [id |-> "p2", name |-> "Silver", price |-> 1005],
     [id |-> "p3", name |-> "Bronze", price |-> 1003]}
PricingOffers ==
    {[type |-> "fixed", value |-> 99900, maxUses |-> 0],
     [type |-> "percent", value |-> 20, maxUses |-> 0],
     [type |-> "percent", value |-> 50, maxUses |-> 0]}
NextPricing ==
    \/ AdminStep({<<"s", "a">>}, PricingOffers)
    \/ ModalStep(Ticket, {<<"S", "A">>})
    \/ ChooseFrom(Ticket, RaceOrders, PricedCatalog)
    \/ ResumeStep
SpecPricing == InitWith(Production) /\ [][NextPricing]_vars

\* The ledger: coupon commands with codes and options that are accepted and
\* refused, the coupon modal, one order in each ticket and its confirmations
LedgerTexts ==
    {<<"a", "b">>, <<" ", "A", "b", " ">>, <<"a">>,
     <<"S", "A", "V", "E", "1", "0">>, <<"s", "a", "v", "e", "1", "0">>}
LedgerOffers == CouponOffers \cup {[type |-> "bogus", value |-> 50, maxUses |-> 0]}
NextLedger ==
    \/ AdminStep(LedgerTexts, LedgerOffers)
    \/ ModalStep(Ticket, LedgerTexts)
    \/ ChooseStep(Ticket, Cardinality(Ticket))
    \/ ResumeStep
    \/ ConfirmStep
SpecLedger == InitWith(Production) /\ [][NextLedger]_vars

\* Two tickets side by side: two coupons, coupon submissions and product
\* selections in either channel, as many orders as there are channels
TwoCodes == {<<"s", "a">>, <<"s", "b">>}
NextChannels ==
    \/ AdminStep(TwoCodes, CappedOffer)
    \/ ModalStep(Channels, TwoCodes)
    \/ ChooseStep(Channels, Cardinality(Channels))
    \/ ResumeStep
SpecChannels == InitWith(Production) /\ [][NextChannels]_vars

\* Paying: one order in each ticket, payment-link issuance with provider calls
\* that return or throw, and authentic confirmations
NextPay ==
    \/ ChooseStep(Ticket, Cardinality(Ticket))
    \/ PayStep
    \/ ConfirmStep
SpecPay == InitWith(Production) /\ [][NextPay]_vars

\* The life of an order: coupon commands, the coupon modal, one order in each
\* ticket, payment-link issuance, authentic confirmations and +dn
NextLife ==
    \/ AdminStep({<<"s", "a">>}, CappedOffer)
    \/ ModalStep(Ticket, {<<"S", "A">>})
    \/ ChooseStep(Ticket, Cardinality(Ticket))
    \/ ResumeStep
    \/ PayStep
    \/ ConfirmStep
    \/ \E c \in Ticket, sent \in BOOLEAN : Dn(c, sent)
SpecLife == InitWith(Production) /\ [][NextLife]_vars

\* Who marks an order paid: a coupon is added, the coupon modal, one order in the
\* ticket, a Stripe payment link with provider calls that return or throw, +dn
\* and +close, and webhook deliveries of every kind, with both webhook secrets
\* configured or neither
NextPaid ==
    \/ \E offer \in CappedOffer :
          SlashCouponAdd(<<"s", "a">>, offer.type, offer.value, offer.maxUses)
    \/ ModalStep(Ticket, {<<"S", "A">>})
    \/ ChooseStep(Ticket, Cardinality(Ticket))
    \/ ResumeStep
    \/ PayStart(1, "stripe")
    \/ \E h \in payAwait, ok \in BOOLEAN : PayResume(h, ok)
    \/ WebhookStep
    \/ CloseStep(Ticket)
SpecPaid == InitWith(BothOrNeither) /\ [][NextPaid]_vars

\* Who counts a coupon's uses: coupon commands, the coupon modal, one order more
\* than the coupon's cap in one ticket, a Stripe payment link for the first
\* order, with provider calls that return or throw, and authentic confirmations
OneOverCap == (CHOOSE o \in CappedOffer : TRUE).maxUses + 1
NextUses ==
    \/ AdminStep({<<"s", "a">>}, CappedOffer)
    \/ ModalStep(Ticket, {<<"S", "A">>})
    \/ ChooseStep(Ticket, OneOverCap)
    \/ ResumeStep
    \/ PayStart(1, "stripe")
    \/ \E h \in payAwait, ok \in BOOLEAN : PayResume(h, ok)
    \/ ConfirmStep
SpecUses == InitWith(Production) /\ [][NextUses]_vars

\* Closing a ticket: product selection (no coupon exists, so none is ever
\* suspended), authentic confirmations and +dn
NextClose ==
    \/ ChooseStep(Ticket, MaxOrders)
    \/ ConfirmStep
    \/ CloseStep(Ticket)
SpecClose == InitWith(Production) /\ [][NextClose]_vars

----------------------------------------------------------------------------
(* The claims *)

\* a step in which a webhook handler processed a confirmation of order i: markPaid
\* returned the order and the handler went through the block under "if (order)"
Confirmed(i) == OrderKnown(orders, i) /\ notifyCalls'[i] = notifyCalls[i] + 1

Stored(i) == OrderKnown(orders, i)
IsPaid(i) == Stored(i) /\ orders[i].status = "paid"
HasCoupon(i) == Stored(i) /\ orders[i].pricing.coupon.code # <<>>
Flagged(i) == Stored(i) /\ orders[i].pricing.couponUsedMarked

\* C1: a confirmation of an order that is stored as paid, from either provider
\* and with any transaction id or amount, leaves the order store and the coupon
\* ledger as they are.
C1_DuplicateConfirmationIsNoOp ==
    [][\A i \in OrderIds :
          (IsPaid(i) /\ Confirmed(i)) => (orders' = orders /\ coupons' = coupons)]_vars

\* a paid order with a recorded coupon use has taken a second confirmation, from
\* the other provider than the one that paid it
C1_Witness ==
    \E i \in OrderIds :
        /\ IsPaid(i) /\ Flagged(i)
        /\ transitions[i] = 1 /\ notifyCalls[i] = 2
        /\ ledgerIncs[i] = 1
        /\ lastResp.provider # orders[i].payment.provider

\* C2: notifyPaid is called once per pending -> paid transition of an order, and
\* not for a duplicate confirmation.
C2_NotifiedOncePerTransition ==
    \A i \in OrderIds : notifyCalls[i] = transitions[i]

\* C3: an order that is stored as paid is stored as paid after every step.
C3_PaidIsTerminal ==
    [][\A i \in OrderIds : IsPaid(i) => orders'[i].status = "paid"]_vars

\* C4: the ledger counter is incremented at most once on behalf of an order.
C4_AtMostOneIncrementPerOrder ==
    \A i \in OrderIds : ledgerIncs[i] <= 1

\* C5: a coupon with a cap never has more uses than its cap.
C5_UsesWithinCap ==
    \A k \in 1..Len(coupons) :
        coupons[k].maxUses > 0 => coupons[k].uses <= coupons[k].maxUses

\* two paid orders carry the same capped coupon; the ledger is at its cap and
\* the increment for one of the two was refused
C5_Witness ==
    \E i, j \in OrderIds :
        /\ i # j /\ IsPaid(i) /\ IsPaid(j)
        /\ HasCoupon(i) /\ HasCoupon(j)
        /\ orders[i].pricing.coupon.code = orders[j].pricing.coupon.code
        /\ ledgerIncs[i] = 1 /\ ledgerIncs[j] = 0
        /\ \E k \in 1..Len(coupons) :
              /\ coupons[k].code = orders[i].pricing.coupon.code
              /\ coupons[k].maxUses > 0
              /\ coupons[k].uses = coupons[k].maxUses

\* C6: createInvoicePDF is called at most once for an order, and only for an
\* order that made the pending -> paid transition.
C6_InvoiceOncePerPaidOrder ==
    \A i \in OrderIds :
        /\ invoices[i] <= 1
        /\ invoices[i] > 0 => transitions[i] > 0

\* C7: a confirmation of an order with a coupon leaves it paid and flagged; the
\* ledger is untouched when the coupon can no longer be used (removed, inactive
\* or at its cap) and when the order was flagged already.
C7_ConfirmedDespiteUnusableCoupon ==
    [][\A i \in OrderIds :
          (HasCoupon(i) /\ Confirmed(i)) =>
              /\ orders'[i].status = "paid"
              /\ orders'[i].pricing.couponUsedMarked
              /\ findCoupon(coupons, orders[i].pricing.coupon.code).code = <<>>
                    => coupons' = coupons
              /\ Flagged(i) => coupons' = coupons]_vars

\* an order was confirmed when its coupon could not be used any more, and has
\* taken a duplicate confirmation since: paid, flagged, no increment made
C7_Witness ==
    \E i \in OrderIds :
        /\ IsPaid(i) /\ HasCoupon(i) /\ Flagged(i)
        /\ ledgerIncs[i] = 0
        /\ notifyCalls[i] = 2

\* C8: a flagged order is paid and has a coupon; an order without coupon is
\* never flagged and no ledger increment is ever made for it.
C8_FlagOnlyOnPaidCouponOrders ==
    \A i \in DOMAIN orders :
        /\ Flagged(i) => (IsPaid(i) /\ HasCoupon(i))
        /\ ~HasCoupon(i) => (~Flagged(i) /\ ledgerIncs[i] = 0)

\* an order without coupon has been confirmed twice and is not flagged, next
\* to a flagged order, with a coupon in the ledger
C8_Witness ==
    /\ coupons # <<>>
    /\ \E i, j \in OrderIds :
          /\ IsPaid(i) /\ ~HasCoupon(i) /\ ~Flagged(i) /\ notifyCalls[i] = 2
          /\ Flagged(j)

\* a Cryptomus delivery that passes the trust check and has no order id, a status
\* that is not a paid status, or an order id the store does not hold
IgnorableCryptomus ==
    \E sign \in {s \in Signs : isCryptomusWebhookTrusted(s)} :
        \E i \in WebhookOrderIds, status \in Statuses :
            /\ \/ i = MissingId
               \/ ~OrderKnown(orders, i)
               \/ toLowerCase(status) \notin {Paid, PaidOver, PaidPartial}
            /\ \E txid \in CryptomusTxIds, amount \in CryptomusAmounts :
                  CryptomusWebhook(sign, i, status, txid, amount)

\* a Stripe delivery that passes the signature check and is no completed
\* checkout, or names no order or an order the store does not hold
IgnorableStripe ==
    \E signed \in {b \in BOOLEAN : b \/ ~env.whSecret} :
        \E type \in StripeTypes, i \in WebhookOrderIds :
            /\ \/ i = MissingId
               \/ type # "checkout.session.completed"
               \/ ~OrderKnown(orders, i)
            /\ \E txid \in StripeTxIds, total \in StripeTotals :
                  StripeWebhook(signed, type, i, txid, total)

\* the store, the ledger and the notifications are as before the step, and the
\* delivery was answered with 200
NothingChanged ==
    /\ orders' = orders
    /\ coupons' = coupons
    /\ notifyCalls' = notifyCalls
    /\ lastResp'.code = 200

\* C9: an ignorable delivery changes neither the order store nor the ledger,
\* calls notifyPaid for no order, and is answered with 200.  Stated as its
\* contrapositive: a step that changes any of these is no ignorable delivery.
C9_IgnorableDeliveryChangesNothing ==
    [][~NothingChanged => ~(IgnorableCryptomus \/ IgnorableStripe)]_vars

\* a delivery with a status that is not a paid status was answered while an order
\* with a coupon was pending
C9_Witness ==
    /\ lastResp = Response("cryptomus", 200, "not paid")
    /\ \E i \in OrderIds : Stored(i) /\ ~IsPaid(i) /\ HasCoupon(i)
    /\ coupons # <<>>

\* C10: every answer to a webhook delivery is a success response.
C10_EveryDeliveryAcknowledged ==
    lastResp.provider # "none" => lastResp.code = 200

\* a Cryptomus delivery whose sign is missing or is not the md5 of its payload and
\* the configured api key
UntrustedCryptomus ==
    /\ env.apiKey
    /\ \E sign \in Signs \ {"valid"}, i \in WebhookOrderIds, status \in Statuses,
          txid \in CryptomusTxIds, amount \in CryptomusAmounts :
            CryptomusWebhook(sign, i, status, txid, amount)

\* a Stripe delivery whose signature constructEvent rejects
UnverifiedStripe ==
    /\ env.whSecret
    /\ \E type \in StripeTypes, i \in WebhookOrderIds,
          txid \in StripeTxIds, total \in StripeTotals :
            StripeWebhook(FALSE, type, i, txid, total)

\* the order store, the ledger and the notifications are as before the step
ControllerUntouched ==
    /\ orders' = orders
    /\ coupons' = coupons
    /\ notifyCalls' = notifyCalls

\* C11: a delivery that fails the authenticity check of its handler changes
\* neither the order store nor the ledger and calls notifyPaid for no order.
\* Stated as its contrapositive: a step that changes any of these is no such
\* delivery.
C11_UntrustedDeliveryChangesNothing ==
    [][~ControllerUntouched => ~(UntrustedCryptomus \/ UnverifiedStripe)]_vars

\* an untrusted Cryptomus delivery was answered while a pending order with a
\* coupon was in the store
C11_Witness ==
    /\ lastResp = Response("cryptomus", 401, "untrusted")
    /\ \E i \in OrderIds :
          Stored(i) /\ ~IsPaid(i) /\ HasCoupon(i) /\ notifyCalls[i] = 0

\* the orders choose_prod has built: the stored ones and those of the handlers
\* suspended before upsertOrder
BuiltOrders == {orders[i] : i \in DOMAIN orders} \cup chooseAwait

\* C12: every order has total = original - discount and 0 <= total <= original.
C12_TotalIsOriginalMinusDiscount ==
    \A o \in BuiltOrders :
        /\ o.pricing.total = o.pricing.original - o.pricing.discount
        /\ 0 <= o.pricing.total
        /\ o.pricing.total <= o.pricing.original

\* the reference discount of the specification, unrounded, in hundredths of a cent
RefDiscount(amount, coupon) ==
    IF coupon.code = <<>> THEN 0
    ELSE IF coupon.type = "fixed" THEN 100 * Min(Max(coupon.value, 0), amount)
    ELSE IF coupon.type = "percent" THEN amount * Min(Max(coupon.value, 0), 100)
    ELSE 0

\* cents is the amount of hundredths, to half a cent
NearestCent(cents, hundredths) ==
    /\ 100 * cents - hundredths <= 50
    /\ hundredths - 100 * cents <= 50

\* coupons the ledger accepts, coupons it would refuse (the clamps), and none
PricingCoupons ==
    {[NullCoupon EXCEPT !.code = <<"S", "A">>, !.type = o.type, !.value = o.value,
                        !.active = TRUE] :
        o \in PricingOffers \cup {[type |-> "fixed", value |-> 3000, maxUses |-> 0],
                                 [type |-> "fixed", value |-> 0 - 500, maxUses |-> 0],
                                 [type |-> "percent", value |-> 150, maxUses |-> 0],
                                 [type |-> "percent", value |-> 0 - 5, maxUses |-> 0]}}
    \cup {NullCoupon}
PricingAmounts == {prod.price : prod \in PricedCatalog} \cup {10000, 5000}

----------------------------------------------------------------------------
(* The ledger functions, at every ledger the handlers reach *)

\* the ledger as stored, and as it is with one coupon switched off in coupons.json
LedgerVariants ==
    {coupons} \cup {[coupons EXCEPT ![k].active = FALSE] : k \in DOMAIN coupons}

\* codes as they are looked up: typed in either case, padded, malformed, empty
LookupTexts ==
    LedgerTexts \cup {<<>>, <<"A", "B">>, <<"A", "b">>, <<"S", "a", "v", "e", "1", "0">>,
                      <<"5", "0", "%", "O", "F", "F">>}

\* two codes are the same but for the case of their letters
EqualIgnoringCase(a, b) ==
    /\ Len(a) = Len(b)
    /\ \A k \in 1..Len(a) : UpperOf(a[k]) = UpperOf(b[k])

\* active and (maxUses == 0 or uses < maxUses)
Usable(c) == c.active /\ (c.maxUses = 0 \/ c.uses < c.maxUses)

\* C14: findCoupon(code) returns a coupon if and only if the ledger holds a
\* coupon whose code equals code ignoring case and that coupon is usable, and
\* then it returns that coupon; for an absent, inactive or exhausted coupon and
\* for the empty code it returns nothing
C14_FindReturnsUsableMatch ==
    \A arr \in LedgerVariants, code \in LookupTexts :
        LET found == findCoupon(arr, code)
            Matches == {k \in 1..Len(arr) : EqualIgnoringCase(arr[k].code, code)}
        IN  /\ found # NullCoupon <=> \E k \in Matches : Usable(arr[k])
            /\ found # NullCoupon =>
                   \E k \in Matches : found = arr[k] /\ Usable(arr[k])
            /\ code = <<>> => found = NullCoupon

\* the ledger holds a coupon at its cap after a confirmed order, which a lookup
\* in lower case does not return, and an unused one, which it does
C14_Witness ==
    \E k, j \in DOMAIN coupons :
        /\ coupons[k].maxUses > 0 /\ coupons[k].uses = coupons[k].maxUses
        /\ findCoupon(coupons, toLowerCase(coupons[k].code)) = NullCoupon
        /\ coupons[j].uses = 0
        /\ findCoupon(coupons, toLowerCase(coupons[j].code)) = coupons[j]

\* codes as they are given to /coupon add: those looked up, and codes of 32 and
\* of 33 characters
AddTexts == LookupTexts \cup {[k \in 1..32 |-> "X"], [k \in 1..33 |-> "X"]}

\* options as they are given to /coupon add: accepted ones, and one refused for
\* each reason
AddOffers ==
    LedgerOffers \cup
    {[type |-> "percent", value |-> 100, maxUses |-> 3],
     [type |-> "fixed", value |-> 0, maxUses |-> 0],
     [type |-> "fixed", value |-> -5, maxUses |-> 0],
     [type |-> "percent", value |-> 101, maxUses |-> 0],
     [type |-> "fixed", value |-> 50, maxUses |-> -1]}

\* 2-32 characters of [A-Z0-9_-]
WellFormed(norm) ==
    /\ Len(norm) \in 2..32
    /\ \A k \in 1..Len(norm) :
          norm[k] \in DOMAIN LowerTable \cup Digits \cup {"_", "-"}

\* an input that is to be refused, for one of the six reasons
Refused(arr, code, offer) ==
    \/ ~WellFormed(toUpperCase(trim(code)))
    \/ \E k \in 1..Len(arr) : EqualIgnoringCase(arr[k].code, trim(code))
    \/ offer.type \notin {"fixed", "percent"}
    \/ offer.value <= 0
    \/ offer.type = "percent" /\ offer.value > 100
    \/ offer.maxUses < 0

AnOffer == [type |-> "fixed", value |-> 50, maxUses |-> 1]
AfterSave10 ==
    ledgerAfterAdd(<<>>, <<"s", "a", "v", "e", "1", "0">>, AnOffer.type, AnOffer.value,
                   AnOffer.maxUses)

\* C15: addCoupon refuses, with an error and the ledger unchanged, every input
\* whose normalized code is not 2-32 characters of [A-Z0-9_-], whose code exists
\* ignoring case, whose type is neither fixed nor percent, whose value is not
\* positive, whose percent exceeds 100 or whose maxUses is negative; it accepts
\* every other input and appends exactly one coupon with the uppercased code,
\* uses 0 and active true. "ab" is accepted, "a" and "50%OFF" are refused, and
\* "SAVE10" is refused after "save10"
C15_AddValidatesAndAppends ==
    /\ \A code \in AddTexts, offer \in AddOffers :
          LET error == addCouponError(coupons, code, offer.type, offer.value, offer.maxUses)
              after == ledgerAfterAdd(coupons, code, offer.type, offer.value, offer.maxUses)
          IN  IF Refused(coupons, code, offer)
              THEN error # "" /\ after = coupons
              ELSE /\ error = ""
                   /\ after = Append(coupons,
                                [code |-> toUpperCase(trim(code)), type |-> offer.type,
                                 value |-> offer.value, uses |-> 0,
                                 maxUses |-> offer.maxUses, active |-> TRUE])
    /\ addCouponError(<<>>, <<"a", "b">>, AnOffer.type, AnOffer.value, AnOffer.maxUses) = ""
    /\ addCouponError(<<>>, <<"a">>, AnOffer.type, AnOffer.value, AnOffer.maxUses) # ""
    /\ addCouponError(<<>>, <<"5", "0", "%", "O", "F", "F">>, AnOffer.type, AnOffer.value,
                      AnOffer.maxUses) # ""
    /\ Len(AfterSave10) = 1
    /\ addCouponError(AfterSave10, <<"S", "A", "V", "E", "1", "0">>, AnOffer.type,
                      AnOffer.value, AnOffer.maxUses) # ""

\* /coupon add has put AB and SAVE10 into the ledger, both unused and active, and
\* now refuses "SAVE10" and " Ab " as existing
C15_Witness ==
    /\ Len(coupons) = 2
    /\ {coupons[k].code : k \in DOMAIN coupons} =
          {<<"A", "B">>, <<"S", "A", "V", "E", "1", "0">>}
    /\ \A k \in DOMAIN coupons : coupons[k].uses = 0 /\ coupons[k].active
    /\ addCouponError(coupons, <<"S", "A", "V", "E", "1", "0">>, AnOffer.type,
                      AnOffer.value, AnOffer.maxUses) = "Coupon already exists"
    /\ addCouponError(coupons, <<" ", "A", "b", " ">>, AnOffer.type, AnOffer.value,
                      AnOffer.maxUses) = "Coupon already exists"

\* C16: starting from an empty ledger, after any sequence of coupon additions,
\* removals, recorded uses and payment confirmations, every code in the ledger
\* is in normalized upper-case form (trimmed, upper case, 2-32 characters of
\* [A-Z0-9_-]) and no two codes are equal ignoring case
C16_CodesNormalizedAndDistinct ==
    /\ \A k \in DOMAIN coupons :
          /\ coupons[k].code = toUpperCase(trim(coupons[k].code))
          /\ WellFormed(coupons[k].code)
    /\ \A k, j \in DOMAIN coupons :
          EqualIgnoringCase(coupons[k].code, coupons[j].code) => k = j

\* two coupons were added, SAVE10 before AB, and a confirmation has recorded a
\* use of one of them
C16_Witness ==
    /\ Len(coupons) = 2
    /\ coupons[1].code = <<"S", "A", "V", "E", "1", "0">>
    /\ coupons[2].code = <<"A", "B">>
    /\ \E k \in DOMAIN coupons : coupons[k].uses = 1
    /\ \E i \in DOMAIN orders : orders[i].status = "paid"

\* C17: incrementCouponUse(code) returns true and raises uses of exactly that
\* coupon by exactly 1, every other coupon and field unchanged, when the coupon
\* exists, is active and is under its cap or has no cap; otherwise (missing,
\* inactive, uses >= maxUses > 0) it returns false and the ledger is unchanged
C17_IncrementExactlyOneUse ==
    \A arr \in LedgerVariants, code \in LookupTexts :
        LET idx == incrementIndex(arr, code)
            after == incrementCouponUse(arr, code)
            Matches == {k \in 1..Len(arr) : EqualIgnoringCase(arr[k].code, trim(code))}
        IN  IF \E k \in Matches : Usable(arr[k])
            THEN /\ idx \in Matches
                 /\ Len(after) = Len(arr)
                 /\ \A j \in 1..Len(arr) :
                       IF j = idx
                       THEN /\ after[j].uses = arr[j].uses + 1
                            /\ [after[j] EXCEPT !.uses = arr[j].uses] = arr[j]
                       ELSE after[j] = arr[j]
            ELSE idx = 0 /\ after = arr

\* a confirmation has recorded the use of an order's coupon that has no cap: the
\* ledger shows one use, and a further increment would be made
C17_Witness ==
    \E i \in DOMAIN orders, k \in DOMAIN coupons :
        /\ ledgerIncs[i] = 1
        /\ coupons[k].code = orders[i].pricing.coupon.code
        /\ coupons[k].uses = 1 /\ coupons[k].maxUses = 0
        /\ incrementIndex(coupons, coupons[k].code) = k

\* C18: deleteCoupon(code) returns true if and only if a coupon with the
\* trimmed, uppercased code was in the ledger; afterwards no coupon has that
\* code, findCoupon(code) returns nothing, and every other coupon is unchanged
C18_DeleteRemovesExactlyThatCode ==
    \A arr \in LedgerVariants, code \in LookupTexts :
        LET norm == toUpperCase(trim(code))
            after == deleteCoupon(arr, code)
            Held == {k \in 1..Len(arr) : arr[k].code = norm}
        IN  /\ Len(after) # Len(arr) <=> Held # {}
            /\ \A j \in 1..Len(after) : after[j].code # norm
            /\ findCoupon(after, code) = NullCoupon
            /\ \A k \in Held :
                  after = SubSeq(arr, 1, k - 1) \o SubSeq(arr, k + 1, Len(arr))
            /\ Held = {} => after = arr

\* /coupon delete has removed the coupon a stored order was priced with, and
\* another coupon is still in the ledger
C18_Witness ==
    \E i \in DOMAIN orders :
        /\ orders[i].pricing.coupon.code # <<>>
        /\ \A k \in DOMAIN coupons : coupons[k].code # orders[i].pricing.coupon.code
        /\ Len(coupons) = 1
        /\ deleteCoupon(coupons, toLowerCase(orders[i].pricing.coupon.code)) = coupons

----------------------------------------------------------------------------
(* The pending coupon of a channel *)

\* the order a product selection has just built, stored or about to be
JustBuilt == CHOOSE o \in BuiltOrders' : o.id = idsIssued'

\* the indices of the ledger's usable coupons with the given code
UsableAt(code) == {k \in DOMAIN coupons : coupons[k].code = code /\ Usable(coupons[k])}

\* a product selection whose channel has a usable pending coupon builds an order
\* with that coupon's code and the discounted total; one whose channel has no
\* pending coupon builds one without coupon at the product's price; either way
\* the channel has no pending coupon afterwards
SelectionConsumesPending ==
    LET new == JustBuilt
        price == new.product.price
        pending == getPendingCoupon(pendingCoupons, new.channelId)
    IN  /\ new.channelId \notin DOMAIN pendingCoupons'
        /\ new.pricing.original = price
        /\ \A k \in UsableAt(pending.code) :
              /\ new.pricing.coupon.code = pending.code
              /\ NearestCent(new.pricing.total,
                             100 * price - RefDiscount(price, coupons[k]))
              /\ NearestCent(new.pricing.discount, RefDiscount(price, coupons[k]))
        /\ pending.code = <<>> =>
              /\ new.pricing.coupon = NoSnapshot
              /\ new.pricing.total = price
              /\ new.pricing.discount = 0

\* a coupon submission that changes the pending coupons makes a usable coupon of
\* the ledger the pending coupon of its channel
SubmissionSetsPending ==
    \E c \in DOMAIN pendingCoupons' :
        /\ UsableAt(pendingCoupons'[c].code) # {}
        /\ \A d \in DOMAIN pendingCoupons' \ {c} :
              d \in DOMAIN pendingCoupons /\ pendingCoupons'[d] = pendingCoupons[d]

\* C19: after a usable coupon X was submitted in a channel, the next product
\* selection in that channel builds an order with pricing.coupon.code = X and
\* the discounted total and leaves the channel without pending coupon; a
\* selection after that builds an order without coupon whose total is the
\* product's price
C19_PendingCouponConsumedOnce ==
    [][/\ idsIssued' # idsIssued => SelectionConsumesPending
       /\ (idsIssued' = idsIssued /\ pendingCoupons' # pendingCoupons)
             => SubmissionSetsPending]_vars

\* two orders of one channel are stored: the first with the coupon SA and the
\* total 9.50 for a product of 10.00, the second without coupon at 10.00
C19_Witness ==
    /\ {1, 2} \subseteq DOMAIN orders
    /\ orders[1].channelId = orders[2].channelId
    /\ orders[1].pricing.coupon.code = <<"S", "A">>
    /\ orders[1].pricing.total = 950 /\ orders[1].pricing.original = 1000
    /\ orders[2].pricing.coupon = NoSnapshot
    /\ orders[2].pricing.total = 1000
    /\ orders[1].channelId \notin DOMAIN pendingCoupons

\* C20: when the coupon named by a channel's pending coupon has been removed or
\* exhausted (or deactivated) by the time a product is selected, the selection
\* does not fail: it stores a pending order without coupon whose total is the
\* product's price, and the channel's pending coupon is removed
C20_StalePendingDropped ==
    [][idsIssued' # idsIssued =>
          LET id == idsIssued'
              pending == getPendingCoupon(pendingCoupons, JustBuilt.channelId)
          IN  (pending.code # <<>> /\ UsableAt(pending.code) = {}) =>
                 /\ OrderKnown(orders', id)
                 /\ orders'[id].status = "pending"
                 /\ orders'[id].pricing.coupon = NoSnapshot
                 /\ orders'[id].pricing.total = orders'[id].product.price
                 /\ orders'[id].pricing.discount = 0
                 /\ orders'[id].channelId \notin DOMAIN pendingCoupons'
                 /\ chooseAwait' = chooseAwait]_vars

\* a product was selected while the channel's pending coupon was exhausted by a
\* confirmed order: the new order is stored pending, without coupon, at the
\* product's price, and the channel has no pending coupon
C20_Witness ==
    \E i \in staleDrops, k \in DOMAIN coupons :
        /\ coupons[k].maxUses > 0 /\ coupons[k].uses >= coupons[k].maxUses
        /\ OrderKnown(orders, i)
        /\ orders[i].status = "pending"
        /\ orders[i].pricing.coupon = NoSnapshot
        /\ orders[i].pricing.total = orders[i].product.price
        /\ orders[i].channelId \notin DOMAIN pendingCoupons

----------------------------------------------------------------------------
(* The pending-coupon store across channels *)

\* the channel's association, NoPending for none
PendingOf(obj, c) == IF c \in DOMAIN obj THEN obj[c] ELSE NoPending

\* the channels whose association differs between two stores
ChangedChannels(before, after) ==
    {c \in Channels : PendingOf(before, c) # PendingOf(after, c)}

\* snapshots a submission can store: one for each coupon of the ledger
LedgerSnapshots ==
    {[code |-> coupons[k].code, type |-> coupons[k].type, value |-> coupons[k].value,
      maxUses |-> coupons[k].maxUses] : k \in DOMAIN coupons}

\* C21: the pending-coupon store holds at most one association per channel:
\* setPendingCoupon replaces the channel's association, clearPendingCoupon
\* removes only that channel's, both leave every other channel's unchanged, and
\* so does every step of interleaved submissions and selections across channels
C21_PendingPerChannel ==
    [][/\ DOMAIN pendingCoupons \subseteq Channels
       /\ \A c \in Channels :
             /\ \A coupon \in LedgerSnapshots :
                   LET after == setPendingCoupon(pendingCoupons, c, coupon)
                   IN  /\ PendingOf(after, c) = coupon
                       /\ DOMAIN after = DOMAIN pendingCoupons \cup {c}
                       /\ ChangedChannels(pendingCoupons, after) \subseteq {c}
             /\ LET after == clearPendingCoupon(pendingCoupons, c)
                 IN  /\ DOMAIN after = DOMAIN pendingCoupons \ {c}
                     /\ ChangedChannels(pendingCoupons, after) \subseteq {c}
       /\ Cardinality(ChangedChannels(pendingCoupons, pendingCoupons')) <= 1
       /\ idsIssued' # idsIssued =>
             ChangedChannels(pendingCoupons, pendingCoupons') \subseteq {JustBuilt.channelId}
      ]_vars

\* one channel's pending coupon was consumed by an order of that channel while
\* the other channel still holds its own, a different one
C21_Witness ==
    \E o \in BuiltOrders, c \in DOMAIN pendingCoupons :
        /\ o.channelId # c
        /\ o.channelId \notin DOMAIN pendingCoupons
        /\ o.pricing.coupon.code # <<>>
        /\ pendingCoupons[c].code # o.pricing.coupon.code

\* the ids of the built orders that carry a coupon
CouponCarriers(built) == {o.id : o \in {x \in built : x.pricing.coupon.code # <<>>}}

\* C22: a pending coupon is consumed exactly once: an order that carries a
\* coupon is built only by a product selection that finds the coupon pending in
\* its channel and removes it in the same step, a selection never creates a
\* pending coupon, and no other step makes an order carry a coupon; so of two
\* selections in one channel, the second starting while the first is suspended
\* on its send, at most one builds an order with the submitted coupon
C22_PendingConsumedAtMostOnce ==
    [][/\ idsIssued' # idsIssued =>
             /\ DOMAIN pendingCoupons' \subseteq DOMAIN pendingCoupons
             /\ CouponCarriers(BuiltOrders') \subseteq CouponCarriers(BuiltOrders) \cup {idsIssued'}
             /\ JustBuilt.pricing.coupon.code # <<>> =>
                   /\ JustBuilt.channelId \in DOMAIN pendingCoupons
                   /\ pendingCoupons[JustBuilt.channelId].code = JustBuilt.pricing.coupon.code
                   /\ JustBuilt.channelId \notin DOMAIN pendingCoupons'
       /\ idsIssued' = idsIssued =>
             CouponCarriers(BuiltOrders') \subseteq CouponCarriers(BuiltOrders)
      ]_vars

\* a second selection was handled while the first was suspended on its send: the
\* suspended order carries the coupon, the later order of the same channel is
\* stored without coupon, and the channel has no pending coupon
C22_Witness ==
    \E o \in chooseAwait, i \in DOMAIN orders :
        /\ i > o.id
        /\ orders[i].channelId = o.channelId
        /\ o.pricing.coupon.code # <<>>
        /\ orders[i].pricing.coupon = NoSnapshot
        /\ o.channelId \notin DOMAIN pendingCoupons

----------------------------------------------------------------------------
(* Payment-link issuance *)

\* a pay handler resumes with the provider call having thrown
ProviderThrows == \E h \in payAwait : PayResume(h, FALSE)

\* C23: when the provider call of a payment-link issuance throws, the stored
\* order is unchanged: its status stays as it was and no payment method,
\* provider, url or transaction id is written for that attempt
C23_ProviderFailureWritesNothing ==
    [][orders' # orders => ~ProviderThrows]_vars

\* a provider call has thrown for a pending order, no attempt is in flight, and
\* the order is stored pending without payment method, provider, url or
\* transaction id
C23_Witness ==
    \E i \in payFailed :
        /\ OrderKnown(orders, i)
        /\ orders[i].status = "pending"
        /\ orders[i].payment = NoPayment
        /\ payAwait = {}

----------------------------------------------------------------------------
(* Stored orders *)

\* the fields of an order that are fixed when it is stored
Snapshot(o) ==
    [id |-> o.id, channelId |-> o.channelId, userId |-> o.userId, product |-> o.product,
     original |-> o.pricing.original, discount |-> o.pricing.discount,
     total |-> o.pricing.total, coupon |-> o.pricing.coupon]

\* C24: a stored order is never removed, and its id, channelId, userId, product
\* snapshot and pricing.original, discount, total and coupon never change,
\* whatever payment-link issuance, confirmation, coupon command or +dn follows
C24_StoredOrderKeepsSnapshot ==
    [][\A i \in DOMAIN orders :
          /\ i \in DOMAIN orders'
          /\ Snapshot(orders'[i]) = Snapshot(orders[i])
          /\ orders[i].id = i]_vars

\* an order priced with the coupon SA has since got a payment link, been
\* confirmed and invoiced, and its coupon has been deleted from the ledger; it is
\* stored with the coupon and the total it was built with
C24_Witness ==
    \E i \in DOMAIN orders :
        /\ orders[i].pricing.coupon.code = <<"S", "A">>
        /\ orders[i].pricing.total = 950 /\ orders[i].pricing.original = 1000
        /\ orders[i].payment.url # Null
        /\ orders[i].status = "paid"
        /\ invoices[i] > 0
        /\ coupons = <<>>

----------------------------------------------------------------------------
(* Failures of chat sends during order creation *)

\* C25: a failed chat send during order creation does not lose the order: when
\* a product selection has consumed a channel's usable pending coupon, the order
\* carrying that coupon is stored once the handler is no longer suspended on
\* the 'coupon applied' send, whether or not that send succeeded
C25_ConsumedCouponOrderPersisted ==
    \A i \in 1..idsIssued :
        \/ OrderKnown(orders, i)
        \/ \E o \in chooseAwait : o.id = i

----------------------------------------------------------------------------
(* Closing a ticket *)

\* the most recent order of the channel exists and is not paid
UnpaidTicket(c) ==
    LET i == getOrderByChannelId(orders, c)
    IN  i # 0 /\ orders[i].status # "paid"

\* the step renders no invoice, sends no order log and schedules no deletion
OnlyWarns == invoices' = invoices /\ closeEffects' = closeEffects

\* the step renders the invoice of the channel's order and sends its order log
InvoicedAndLogged(c) ==
    LET i == getOrderByChannelId(orders, c)
    IN  i # 0 => (invoices'[i] = invoices[i] + 1 /\ i \in closeEffects'.logged)

\* C26: for a ticket whose most recent order is not paid the first +dn only
\* warns (no invoice, no order log, no channel deletion) and the second +dn in
\* the channel force-closes; for a ticket whose order is paid or that has no
\* order a single +dn closes; +close never renders an invoice.  (The close
\* commands write neither orders nor notifications, so only steps that leave
\* both unchanged are looked at.)
C26_DnWarnsOnceThenCloses ==
    [][\A c \in {d \in Channels : orders' = orders /\ notifyCalls' = notifyCalls} :
          /\ (UnpaidTicket(c) /\ forceCount[c] = 0 /\ \E sent \in BOOLEAN : Dn(c, sent))
                => OnlyWarns
          /\ (UnpaidTicket(c) /\ forceCount[c] = 1 /\ Dn(c, TRUE))
                => (c \in closeEffects'.deleting /\ InvoicedAndLogged(c))
          /\ (~UnpaidTicket(c) /\ Dn(c, TRUE))
                => (c \in closeEffects'.deleting /\ InvoicedAndLogged(c))
          /\ (\E sent \in BOOLEAN : Close(c, sent)) => invoices' = invoices]_vars

\* +dn was typed once in a ticket whose order is not paid: the counter of the
\* channel is 1, no invoice is rendered, no order log sent, no deletion scheduled
C26_Witness ==
    \E c \in Channels :
        /\ UnpaidTicket(c)
        /\ forceCount[c] = 1
        /\ \A i \in OrderIds : invoices[i] = 0
        /\ closeEffects = [deleting |-> {}, logged |-> {}]

\* a step in which a webhook handler processed a confirmation of order i: a
\* Cryptomus delivery that passed the trust check and reports a paid status, or a
\* Stripe checkout.session.completed event whose metadata names the order
ProcessedConfirmation(i) ==
    \/ \E sign \in Signs, status \in Statuses,
          txid \in CryptomusTxIds, amount \in CryptomusAmounts :
            /\ isCryptomusWebhookTrusted(sign)
            /\ toLowerCase(status) \in paidStatuses
            /\ CryptomusWebhook(sign, i, status, txid, amount)
    \/ \E signed \in BOOLEAN, txid \in StripeTxIds, total \in StripeTotals :
            StripeWebhook(signed, "checkout.session.completed", i, txid, total)

\* C27: an order becomes paid only in a step in which a webhook handler processed
\* a confirmation of that order; no chat interaction (coupon modal, product
\* selection, payment-link request, +dn, +close) sets an order to paid, so every
\* paid order was confirmed earlier.
C27_PaidOnlyByConfirmation ==
    [][\A i \in OrderIds :
          (~IsPaid(i) /\ OrderKnown(orders', i) /\ orders'[i].status = "paid")
              => ProcessedConfirmation(i)]_vars

\* a paid order whose ticket saw a failed and a successful payment-link request
\* and a +dn warning
C27_Witness ==
    \E i \in OrderIds :
        /\ IsPaid(i)
        /\ transitions[i] = 1
        /\ i \in payFailed
        /\ orders[i].payment.url # Null
        /\ forceCount[orders[i].channelId] = 1

----------------------------------------------------------------------------
(* The uses counters *)

\* the codes whose uses counter differs after the step: held by the ledger before
\* and after, with different uses
UsesChanged ==
    {coupons[k].code : k \in {n \in 1..Len(coupons) :
        \E m \in 1..Len(coupons') :
            coupons'[m].code = coupons[n].code /\ coupons'[m].uses # coupons[n].uses}}

\* pending stored orders that carry the coupon code with a discount
PendingWith(code) ==
    {i \in DOMAIN orders : /\ orders[i].status = "pending"
                           /\ orders[i].pricing.coupon.code = code
                           /\ orders[i].pricing.discount > 0}

\* C28: a coupon's uses counter changes only in a step in which a webhook handler
\* processed a confirmation of an order that carries the coupon; coupon
\* submission, product selection and payment-link issuance leave every uses
\* counter as it is.
C28_UsesChangeOnlyAtConfirmation ==
    [][\A code \in UsesChanged :
          \E i \in OrderIds :
              /\ OrderKnown(orders, i)
              /\ orders[i].pricing.coupon.code = code
              /\ ProcessedConfirmation(i)]_vars

\* more pending orders than the coupon's cap: two pending orders of one ticket
\* carry the discount of a coupon with maxUses 1 and no use counted, and a
\* payment link was issued for one of them
C28_Witness ==
    \E k \in 1..Len(coupons) :
        /\ coupons[k].maxUses = 1
        /\ coupons[k].uses = 0
        /\ Cardinality(PendingWith(coupons[k].code)) = 2
        /\ \E i, j \in PendingWith(coupons[k].code) :
              /\ i # j
              /\ orders[i].payment.url # Null
====
